---- MODULE Spec2Model ----
(***************************************************************************)
(* A model of git_history_logbook.py: the line parser of the History      *)
(* Extractor, the per-repository task with its scoped workspace, the       *)
(* thread-pool collection of export_history and the control flow of main.  *)
(*                                                                         *)
(* Text is modelled character by character: a string is a sequence of      *)
(* one-character strings, so that strip, split, slicing and the            *)
(* lexicographic comparison of Python's str are computed, not assumed.     *)
(***************************************************************************)
EXTENDS Integers, Sequences, FiniteSets, TLC

(***************************************************************************)
(* Bounds of the model.                                                    *)
(***************************************************************************)
\* Longest raw git-log output enumerated for the extractor's own check.
MaxTextLen == 7

\* Most repositories configured for one run.
MaxRepos == 2

\* Largest --workers value tried.
MaxWorkers == 2

\* Last millisecond the clock reaches while workspaces are being named.
MaxClock == 1

(***************************************************************************)
(* Python str primitives.                                                  *)
(***************************************************************************)
\* str.strip() with no argument removes leading and trailing whitespace.
IsSpace(c) == c \in {" ", "\n", "\t"}

RECURSIVE LStrip(_)
LStrip(s) ==
    IF s = <<>> THEN <<>>
    ELSE IF IsSpace(Head(s)) THEN LStrip(Tail(s)) ELSE s

RECURSIVE RStrip(_)
RStrip(s) ==
    IF s = <<>> THEN <<>>
    ELSE IF IsSpace(s[Len(s)]) THEN RStrip(SubSeq(s, 1, Len(s) - 1)) ELSE s

Strip(s) == RStrip(LStrip(s))

\* Index of the first occurrence of the character sep in s, 0 when absent.
RECURSIVE FindFrom(_, _, _)
FindFrom(s, sep, i) ==
    IF i > Len(s) THEN 0
    ELSE IF s[i] = sep THEN i ELSE FindFrom(s, sep, i + 1)

\* str.split(sep, maxsplit): at most maxsplit cuts, the rest kept whole.
RECURSIVE SplitMax(_, _, _)
SplitMax(s, sep, maxsplit) ==
    LET i == FindFrom(s, sep, 1) IN
    IF maxsplit = 0 \/ i = 0 THEN << s >>
    ELSE << SubSeq(s, 1, i - 1) >>
            \o SplitMax(SubSeq(s, i + 1, Len(s)), sep, maxsplit - 1)

\* str.split(sep): no limit on the number of cuts.
Split(s, sep) == SplitMax(s, sep, Len(s))

(***************************************************************************)
(* History Extractor: the parser of _get_commit_history.                   *)
(***************************************************************************)
\* The line is kept when the split yields 4 or more fields.
TooFewFieldsStrict(parts) == Len(parts) < 5

TooFewFields(parts) == Len(parts) < 4

\* One physical line: skipped when blank or short, else one commit record.
ParseLine(line, repo_name, repo_project) ==
    LET parts == SplitMax(line, "|", 4) IN
    IF Strip(line) = <<>> THEN <<>>
    ELSE IF TooFewFields(parts) THEN <<>>
    ELSE << [repository  |-> repo_name,
             project     |-> repo_project,
             hash        |-> parts[1],
             author_name |-> parts[2],
             date        |-> parts[3],
             subject     |-> parts[4],
             body        |-> IF Len(parts) > 4 THEN parts[5] ELSE <<>>] >>

RECURSIVE ParseLines(_, _, _)
ParseLines(lines, repo_name, repo_project) ==
    IF lines = <<>> THEN <<>>
    ELSE ParseLine(Head(lines), repo_name, repo_project)
            \o ParseLines(Tail(lines), repo_name, repo_project)

\* The parse of a successful git log: stdout.strip().split('\n'), line by line.
ParseLog(stdout, repo_name, repo_project) ==
    ParseLines(Split(Strip(stdout), "\n"), repo_name, repo_project)

GetCommitHistoryIgnoringExit(outcome, stdout, repo_name, repo_project) ==
    ParseLog(stdout, repo_name, repo_project)

\* _get_commit_history given the outcome of the git log subprocess:
\* "ok" (exit 0), "nonzero" (exit code not 0), "timeout" (TimeoutExpired).
GetCommitHistory(outcome, stdout, repo_name, repo_project) ==
    IF outcome = "ok" THEN ParseLog(stdout, repo_name, repo_project) ELSE <<>>

LogOutcomes == {"ok", "nonzero", "timeout"}

(***************************************************************************)
(* Python str comparison (by code point) and the collection's sort.        *)
(***************************************************************************)
\* ord(c) for the characters that occur in the modelled texts.
Ord ==
    ("\t" :> 9) @@ ("\n" :> 10) @@ (" " :> 32) @@ ("+" :> 43) @@ ("-" :> 45)
    @@ ("0" :> 48) @@ ("1" :> 49) @@ ("2" :> 50) @@ ("3" :> 51) @@ ("4" :> 52)
    @@ ("5" :> 53) @@ ("6" :> 54) @@ ("7" :> 55) @@ ("8" :> 56) @@ ("9" :> 57)
    @@ (":" :> 58) @@ ("A" :> 65) @@ ("B" :> 66) @@ ("a" :> 97) @@ ("b" :> 98)
    @@ ("c" :> 99) @@ ("d" :> 100) @@ ("l" :> 108) @@ ("o" :> 111)
    @@ ("s" :> 115) @@ ("t" :> 116) @@ ("u" :> 117) @@ ("w" :> 119)
    @@ ("x" :> 120) @@ ("y" :> 121) @@ ("z" :> 122) @@ ("|" :> 124)

\* a < b for Python strings: lexicographic, a proper prefix is smaller.
RECURSIVE StrLess(_, _)
StrLess(a, b) ==
    IF b = <<>> THEN FALSE
    ELSE IF a = <<>> THEN TRUE
    ELSE IF Head(a) = Head(b) THEN StrLess(Tail(a), Tail(b))
    ELSE Ord[Head(a)] < Ord[Head(b)]

\* The sort key of export_history: the raw date string.
KeyLessAscending(x, y) == StrLess(y.date, x.date)

KeyLess(x, y) == StrLess(x.date, y.date)

\* x placed behind every element whose key is not smaller (stable, descending).
RECURSIVE InsertDesc(_, _)
InsertDesc(sorted, x) ==
    IF sorted = <<>> THEN << x >>
    ELSE IF KeyLess(Head(sorted), x) THEN << x >> \o sorted
    ELSE << Head(sorted) >> \o InsertDesc(Tail(sorted), x)

RECURSIVE SortFrom(_, _)
SortFrom(sorted, rest) ==
    IF rest = <<>> THEN sorted
    ELSE SortFrom(InsertDesc(sorted, Head(rest)), Tail(rest))

\* all_commits.sort(key=lambda x: x['date'], reverse=True)
SortByDateDesc(commits) == SortFrom(<<>>, commits)

(***************************************************************************)
(* Author allow-list of export_history.                                    *)
(***************************************************************************)
\* A comparison that ignores case, to set against the exact one below.
Lower(c) == IF c = "A" THEN "a" ELSE IF c = "B" THEN "b" ELSE c

LowerStr(s) == [i \in 1..Len(s) |-> Lower(s[i])]

InListIgnoreCase(author, list) ==
    \E i \in 1..Len(list) : LowerStr(list[i]) = LowerStr(author)

\* commit['author_name'] in selected_authors, for a list: element equality.
InList(author, list) == \E i \in 1..Len(list) : list[i] = author

\* The filter applies when the key is present and the list is non-empty.
FilterAuthors(commits, config) ==
    IF config.has_selected_authors /\ Len(config.selected_authors) > 0
    THEN SelectSeq(commits,
                   LAMBDA c : InList(c.author_name, config.selected_authors))
    ELSE commits

(***************************************************************************)
(* The git side: what `git log --pretty=format:%H|%an|%ad|%s|%b            *)
(* --date=iso` prints for a list of commits.                               *)
(***************************************************************************)
DigitChar == << "0", "1", "2", "3", "4", "5", "6", "7", "8", "9" >>

Digits2(n) == << DigitChar[(n \div 10) + 1], DigitChar[(n % 10) + 1] >>

Digits4(n) == Digits2(n \div 100) \o Digits2(n % 100)

\* --date=iso: "YYYY-MM-DD HH:MM:SS +ZZZZ", every field zero-padded.
FormatIso(d) ==
    Digits4(d.year) \o << "-" >> \o Digits2(d.month) \o << "-" >>
    \o Digits2(d.day) \o << " " >> \o Digits2(d.hour) \o << ":" >>
    \o Digits2(d.minute) \o << ":" >> \o Digits2(d.second)
    \o << " ", "+" >> \o Digits4(0)

\* One commit in the format %H|%an|%ad|%s|%b.
FormatCommit(c) ==
    c.hash \o << "|" >> \o c.an \o << "|" >> \o FormatIso(c.ad) \o << "|" >>
    \o c.s \o << "|" >> \o c.b

\* format: puts a newline between commits and none after the last one.
RECURSIVE GitLogOutput(_)
GitLogOutput(commits) ==
    IF commits = <<>> THEN <<>>
    ELSE IF Len(commits) = 1 THEN FormatCommit(commits[1])
    ELSE FormatCommit(Head(commits)) \o << "\n" >> \o GitLogOutput(Tail(commits))

(***************************************************************************)
(* The repositories of the environment.  Authors "Al", "al" and "Bo";      *)
(* one commit with an empty message, one whose body has a second physical  *)
(* line that itself contains the delimiter.                                *)
(***************************************************************************)
Day(d, h) ==
    [year |-> 2024, month |-> 1, day |-> d, hour |-> h, minute |-> 0, second |-> 0]

CommitA1 ==
    [hash |-> << "a", "1" >>, an |-> << "A", "l" >>, ad |-> Day(5, 10),
     s |-> << "s" >>, b |-> <<>>]

CommitB2 ==
    [hash |-> << "b", "2" >>, an |-> << "B", "o" >>, ad |-> Day(7, 9),
     s |-> << "t" >>, b |-> <<>>]

CommitC3 ==
    [hash |-> << "c", "3" >>, an |-> << "a", "l" >>, ad |-> Day(6, 12),
     s |-> << "u" >>,
     b |-> << "w", "\n", "x", "|", "y", "|", "z", "|", "w", "\n",
              "x", "|", "y", "|", "|", "w", "\n" >>]

CommitD4 ==
    [hash |-> << "d", "4" >>, an |-> << "A", "l" >>, ad |-> Day(6, 8),
     s |-> <<>>, b |-> <<>>]

\* A repository descriptor (name, url, project) and what the environment
\* holds for it: url_kind is "empty" (no url), "local" (os.path.exists(url))
\* or "remote"; is_git tells whether git log succeeds in a local path.
Catalogue ==
    ("LA" :> [name |-> << "L", "A" >>, project |-> << "P" >>,
              url_kind |-> "local", is_git |-> TRUE,
              commits |-> << CommitB2, CommitA1 >>])
    @@ ("LB" :> [name |-> << "L", "B" >>, project |-> << "P" >>,
                 url_kind |-> "local", is_git |-> TRUE,
                 commits |-> << CommitC3, CommitD4 >>])
    @@ ("LX" :> [name |-> << "L", "X" >>, project |-> << "Q" >>,
                 url_kind |-> "local", is_git |-> FALSE,
                 commits |-> <<>>])
    @@ ("RC" :> [name |-> << "R", "C" >>, project |-> << "Q" >>,
                 url_kind |-> "remote", is_git |-> TRUE,
                 commits |-> << CommitB2, CommitD4 >>])
    @@ ("RD" :> [name |-> << "R", "D" >>, project |-> << "P" >>,
                 url_kind |-> "remote", is_git |-> TRUE,
                 commits |-> << CommitA1 >>])
    @@ ("NU" :> [name |-> << "N", "U" >>, project |-> << "Q" >>,
                 url_kind |-> "empty", is_git |-> FALSE,
                 commits |-> <<>>])

RepoIds == DOMAIN Catalogue

(***************************************************************************)
(* State.                                                                  *)
(***************************************************************************)
VARIABLES
    gl_stdout,      \* extractor alone: raw output of the git log subprocess
    gl_outcome,     \* extractor alone: outcome of the git log subprocess
    gl_commits,     \* extractor alone: list returned by _get_commit_history
    gl_pc,          \* extractor alone: "call" before, "returned" after
    args,           \* parsed command line: config, repos, csv, workers
    config,         \* logbook.config: repositories, selected_authors
    repositories,   \* the descriptors main hands to export_history
    main_pc,        \* position of the main thread
    exit_code,      \* value returned by main, -1 while it has not returned
    interrupted,    \* a KeyboardInterrupt was delivered to the main thread
    files,          \* output files written: "csv", "md", "html"
    tasks,          \* one record per submitted _process_repository call
    collected,      \* futures already taken from as_completed
    all_commits,    \* export_history's accumulating list, then its result
    temp_dirs,      \* logbook.temp_dirs
    fs,             \* workspace directories that exist on disk
    now,            \* int(time.time() * 1000)
    acquired,       \* history: every directory created by _temp_directory
    released,       \* history: tasks whose scope ran _cleanup_directory
    swept,          \* history: directories the final sweep ran on
    sweeps          \* history: number of runs of cleanup_temp_directories

gl_vars == << gl_stdout, gl_outcome, gl_commits, gl_pc >>

in_vars == << args, config >>

main_vars == << repositories, main_pc, exit_code, interrupted, files >>

pool_vars == << tasks, collected, all_commits >>

ws_vars == << temp_dirs, fs, now >>

hist_vars == << acquired, released, swept, sweeps >>

vars == << gl_vars, in_vars, main_vars, pool_vars, ws_vars, hist_vars >>

(***************************************************************************)
(* Specification of the extractor alone: any short output text over a      *)
(* delimiter, a newline, a blank and an ordinary character.                *)
(***************************************************************************)
TextAlphabet == {"a", "|", " ", "\n"}

Texts == UNION { [1..n -> TextAlphabet] : n \in 0..MaxTextLen }

NoArgs == [config |-> FALSE, repos |-> <<>>, csv |-> FALSE, workers |-> 1]

NoConfig ==
    [repositories |-> <<>>, has_selected_authors |-> FALSE,
     selected_authors |-> <<>>]

\* The state of a logbook object on which main has not started.
Idle ==
    /\ args = NoArgs
    /\ config = NoConfig
    /\ repositories = <<>>
    /\ main_pc = "idle"
    /\ exit_code = -1
    /\ interrupted = FALSE
    /\ files = {}
    /\ tasks = <<>>
    /\ collected = {}
    /\ all_commits = <<>>
    /\ temp_dirs = <<>>
    /\ fs = {}
    /\ now = 0
    /\ acquired = {}
    /\ released = {}
    /\ swept = {}
    /\ sweeps = 0

ExtractorInit ==
    /\ gl_stdout \in Texts
    /\ gl_outcome \in LogOutcomes
    /\ gl_commits = <<>>
    /\ gl_pc = "call"
    /\ Idle

ExtractorCall ==
    /\ gl_pc = "call"
    /\ gl_commits' = GetCommitHistory(gl_outcome, gl_stdout, << "r" >>, << "p" >>)
    /\ gl_pc' = "returned"
    /\ UNCHANGED << gl_stdout, gl_outcome >>
    /\ UNCHANGED << in_vars, main_vars, pool_vars, ws_vars, hist_vars >>

ExtractorNext == ExtractorCall

ExtractorSpec == ExtractorInit /\ [][ExtractorNext]_vars

(***************************************************************************)
(* The run of main: inputs.                                                *)
(***************************************************************************)
RepoOrder == << "LA", "LB", "LX", "RC", "RD", "NU" >>

\* Lists of at most MaxRepos distinct catalogue entries, in catalogue order.
RepoLists ==
    { [i \in 1..Len(ix) |-> RepoOrder[ix[i]]] :
        ix \in { f \in UNION { [1..n -> 1..Len(RepoOrder)] : n \in 0..MaxRepos } :
                   \A i \in 1..(Len(f) - 1) : f[i] < f[i + 1] } }

\* The command lines and config files tried, apart from the repository
\* list and the worker count: without a config file there is no allow-list.
InputProfiles ==
    { [use_config |-> FALSE, csv |-> TRUE, has_sel |-> FALSE, sel |-> <<>>],
      [use_config |-> TRUE, csv |-> FALSE, has_sel |-> FALSE, sel |-> <<>>],
      [use_config |-> TRUE, csv |-> FALSE, has_sel |-> TRUE, sel |-> <<>>],
      [use_config |-> TRUE, csv |-> TRUE, has_sel |-> TRUE,
       sel |-> << << "A", "l" >> >>] }

\* A descriptor as the config file gives it.
ConfigDescriptor(id) ==
    [id |-> id, name |-> Catalogue[id].name, project |-> Catalogue[id].project]

\* A descriptor built from --repos: basename as name and no project, for
\* which _process_repository substitutes 'Unknown'.
CliDescriptor(id) ==
    [id |-> id, name |-> Catalogue[id].name,
     project |-> << "U", "n", "k", "n", "o", "w", "n" >>]

Init ==
    /\ gl_stdout = <<>>
    /\ gl_outcome = "ok"
    /\ gl_commits = <<>>
    /\ gl_pc = "idle"
    /\ \E in \in InputProfiles, list \in RepoLists, workers \in 1..MaxWorkers :
          /\ args = [config |-> in.use_config,
                     repos |-> IF in.use_config THEN <<>> ELSE list,
                     csv |-> in.csv, workers |-> workers]
          /\ config = [repositories |-> IF in.use_config THEN list ELSE <<>>,
                       has_selected_authors |-> in.has_sel,
                       selected_authors |-> in.sel]
    /\ repositories = <<>>
    /\ main_pc = "start"
    /\ exit_code = -1
    /\ interrupted = FALSE
    /\ files = {}
    /\ tasks = <<>>
    /\ collected = {}
    /\ all_commits = <<>>
    /\ temp_dirs = <<>>
    /\ fs = {}
    /\ now = 0
    /\ acquired = {}
    /\ released = {}
    /\ swept = {}
    /\ sweeps = 0

(***************************************************************************)
(* main up to the submission of the tasks.                                 *)
(***************************************************************************)
\* The repositories main selects: the config's when given and non-empty,
\* else the command line's, else none.
SelectRepositories ==
    IF args.config /\ Len(config.repositories) > 0
    THEN [i \in 1..Len(config.repositories) |->
            ConfigDescriptor(config.repositories[i])]
    ELSE [i \in 1..Len(args.repos) |-> CliDescriptor(args.repos[i])]

NoDir == <<>>

\* pc, ts, counter, dir (locals of the task, gone when it ends) and result
\* are the task's own state; outcome ("ok" when the history was extracted,
\* "failed" on any other ending) and rm_failed (whether the scoped removal
\* failed) record what happened.
QueuedTask ==
    [pc |-> "queued", ts |-> 0, counter |-> 0, dir |-> NoDir,
     result |-> <<>>, outcome |-> "none", rm_failed |-> FALSE]

\* main down to the call of export_history and the submission of one task
\* per repository; with no repository it prints the error and returns 1.
MainStart ==
    /\ main_pc = "start"
    /\ IF SelectRepositories = <<>>
       THEN /\ exit_code' = 1
            /\ main_pc' = "finally"
            /\ UNCHANGED << repositories, tasks >>
       ELSE /\ repositories' = SelectRepositories
            /\ tasks' = [t \in 1..Len(SelectRepositories) |-> QueuedTask]
            /\ main_pc' = "collect"
            /\ UNCHANGED exit_code
    /\ UNCHANGED << interrupted, files, collected, all_commits >>
    /\ UNCHANGED << gl_vars, in_vars, ws_vars, hist_vars >>

(***************************************************************************)
(* One repository task: _process_repository on a pool thread.              *)
(***************************************************************************)
TaskIds == 1..Len(tasks)

FinishedOrStarted(t) == tasks[t].pc # "queued"

\* The future of task t is done: the task returned or raised.
Finished(t) == tasks[t].pc \in {"done", "raised"}

Running(t) == tasks[t].pc \notin {"queued", "done", "raised"}

DirName(t) == << tasks[t].ts, tasks[t].counter >>

TaskUnchanged == UNCHANGED << gl_vars, in_vars, main_vars, collected, all_commits >>

\* A free pool thread takes the oldest queued task and runs it up to the
\* choice between no url, a local path and a remote url.
TaskStart(t) ==
    /\ main_pc \in {"collect", "shutdown"}
    /\ tasks[t].pc = "queued"
    /\ \A u \in 1..(t - 1) : tasks[u].pc # "queued"
    /\ Cardinality({ u \in TaskIds : Running(u) }) < args.workers
    /\ LET kind == Catalogue[repositories[t].id].url_kind IN
       tasks' = [tasks EXCEPT ![t] =
                   IF kind = "empty"
                   THEN [@ EXCEPT !.pc = "done", !.outcome = "failed"]
                   ELSE IF kind = "local"
                   THEN [@ EXCEPT !.pc = "local_log"]
                   ELSE [@ EXCEPT !.pc = "stamp"]]
    /\ TaskUnchanged
    /\ UNCHANGED << ws_vars, hist_vars >>

\* The output of git log in the working tree of a repository.
RepoStdout(id) == GitLogOutput(Catalogue[id].commits)

\* Local repository: the history is read in place.
TaskLocalLog(t) ==
    /\ tasks[t].pc = "local_log"
    /\ LET repo == repositories[t]
           o == IF Catalogue[repo.id].is_git THEN "ok" ELSE "nonzero" IN
       tasks' = [tasks EXCEPT ![t] =
                   [@ EXCEPT !.pc = "done",
                             !.outcome = IF o = "ok" THEN "ok" ELSE "failed",
                             !.result = GetCommitHistory(o, RepoStdout(repo.id),
                                                         repo.name, repo.project)]]
    /\ TaskUnchanged
    /\ UNCHANGED << ws_vars, hist_vars >>

\* _temp_directory: the name is taken from the clock in milliseconds.
TaskStamp(t) ==
    /\ tasks[t].pc = "stamp"
    /\ tasks' = [tasks EXCEPT ![t] =
                   [@ EXCEPT !.pc = "exists", !.ts = now, !.counter = 0]]
    /\ TaskUnchanged
    /\ UNCHANGED << ws_vars, hist_vars >>

\* _temp_directory: one turn of `while os.path.exists(temp_dir)`.
TaskExists(t) ==
    /\ tasks[t].pc = "exists"
    /\ tasks' = [tasks EXCEPT ![t] =
                   IF DirName(t) \in fs
                   THEN [@ EXCEPT !.counter = @ + 1]
                   ELSE [@ EXCEPT !.pc = "makedirs"]]
    /\ TaskUnchanged
    /\ UNCHANGED << ws_vars, hist_vars >>

\* _temp_directory: os.makedirs raises when the directory exists by now or
\* cannot be created, and the exception leaves _process_repository;
\* otherwise the directory is created and recorded in temp_dirs.
MakedirsExistOk(name, os_error) == os_error

\* os.makedirs(temp_dir), without exist_ok: FileExistsError when the name
\* is taken, another OSError when the directory cannot be created.
MakedirsRaises(name, os_error) == name \in fs \/ os_error

TaskMakedirs(t) ==
    /\ tasks[t].pc = "makedirs"
    /\ \E os_error \in BOOLEAN :
          IF MakedirsRaises(DirName(t), os_error)
          THEN /\ tasks' = [tasks EXCEPT ![t] =
                              [@ EXCEPT !.pc = "raised",
                                        !.outcome = "failed"]]
               /\ UNCHANGED << ws_vars, hist_vars >>
          ELSE /\ tasks' = [tasks EXCEPT ![t] =
                              [@ EXCEPT !.pc = "clone", !.dir = DirName(t)]]
               /\ fs' = fs \cup {DirName(t)}
               /\ temp_dirs' = Append(temp_dirs, DirName(t))
               /\ acquired' = acquired \cup {DirName(t)}
               /\ UNCHANGED << now, released, swept, sweeps >>
    /\ TaskUnchanged

\* git clone: exit 0, another exit code, or an exception (the 300 s
\* timeout included), which the task's `except Exception` turns into [].
AfterCloneNoRelease(o) == IF o = "ok" THEN "fetch" ELSE "done"

\* Every way out of the `with` block passes through the context manager's
\* `finally`.
AfterClone(o) == IF o = "ok" THEN "fetch" ELSE "release"

TaskClone(t) ==
    /\ tasks[t].pc = "clone"
    /\ \E o \in {"ok", "nonzero", "timeout"} :
          tasks' = [tasks EXCEPT ![t] =
                      IF o = "ok"
                      THEN [@ EXCEPT !.pc = AfterClone(o)]
                      ELSE [@ EXCEPT !.pc = AfterClone(o), !.result = <<>>,
                                     !.outcome = "failed"]]
    /\ TaskUnchanged
    /\ UNCHANGED << ws_vars, hist_vars >>

\* What follows git fetch --all: its exit code is not looked at, and an
\* exception (the 60 s timeout included) is caught by `except Exception`.
AfterFetch(o) == IF o = "timeout" THEN "release" ELSE "log"

TaskFetch(t) ==
    /\ tasks[t].pc = "fetch"
    /\ \E o \in {"ok", "nonzero", "timeout"} :
          tasks' = [tasks EXCEPT ![t] =
                      IF AfterFetch(o) = "log"
                      THEN [@ EXCEPT !.pc = "log"]
                      ELSE [@ EXCEPT !.pc = "release", !.result = <<>>,
                                     !.outcome = "failed"]]
    /\ TaskUnchanged
    /\ UNCHANGED << ws_vars, hist_vars >>

\* _get_commit_history on the cloned tree.
TaskLog(t) ==
    /\ tasks[t].pc = "log"
    /\ \E o \in LogOutcomes :
          LET repo == repositories[t] IN
          tasks' = [tasks EXCEPT ![t] =
                      [@ EXCEPT !.pc = "release",
                                !.outcome = IF o = "ok" THEN "ok" ELSE "failed",
                                !.result = GetCommitHistory(o, RepoStdout(repo.id),
                                                            repo.name, repo.project)]]
    /\ TaskUnchanged
    /\ UNCHANGED << ws_vars, hist_vars >>

\* _cleanup_directory: an existing directory is removed unless the removal
\* (and the fallback) fails, which is logged and otherwise ignored.
CleanupDirectory(dirs, failing) == fs \ (dirs \ failing)

\* The `finally` of _temp_directory, on the way out of the task.
TaskRelease(t) ==
    /\ tasks[t].pc = "release"
    /\ \E rm_fails \in BOOLEAN :
          /\ fs' = CleanupDirectory({tasks[t].dir},
                                    IF rm_fails THEN {tasks[t].dir} ELSE {})
          /\ tasks' = [tasks EXCEPT ![t] =
                         [@ EXCEPT !.pc = "done", !.ts = 0, !.counter = 0,
                                   !.dir = NoDir,
                                   !.rm_failed = rm_fails /\ tasks[t].dir \in fs]]
    /\ released' = released \cup {t}
    /\ UNCHANGED << temp_dirs, now, acquired, swept, sweeps >>
    /\ TaskUnchanged

\* Time passes; only a task that has yet to name its workspace reads it.
Tick ==
    /\ now < MaxClock
    /\ \E t \in TaskIds :
          /\ tasks[t].pc \in {"queued", "stamp"}
          /\ Catalogue[repositories[t].id].url_kind = "remote"
    /\ now' = now + 1
    /\ UNCHANGED << temp_dirs, fs >>
    /\ UNCHANGED << gl_vars, in_vars, main_vars, pool_vars, hist_vars >>

(***************************************************************************)
(* export_history on the main thread.                                      *)
(***************************************************************************)
ExtendReplacing(list, commits) == commits

\* all_commits.extend(commits)
Extend(list, commits) == list \o commits

MainUnchanged == UNCHANGED << gl_vars, in_vars, ws_vars >>

\* One turn of `for future in as_completed(...)`: the result of a finished
\* task is appended; the exception of a task that raised is logged.
MainCollect(t) ==
    /\ main_pc = "collect"
    /\ t \notin collected
    /\ Finished(t)
    /\ all_commits' = IF tasks[t].pc = "done"
                      THEN Extend(all_commits, tasks[t].result)
                      ELSE all_commits
    /\ collected' = collected \cup {t}
    /\ UNCHANGED << tasks, main_vars, hist_vars >>
    /\ MainUnchanged

\* After the last future: the pool is shut down, the allow-list applied,
\* the list sorted and returned.
MainPostProcess ==
    /\ main_pc = "collect"
    /\ collected = TaskIds
    /\ all_commits' = SortByDateDesc(FilterAuthors(all_commits, config))
    /\ main_pc' = "returned"
    /\ UNCHANGED << repositories, exit_code, interrupted, files >>
    /\ UNCHANGED << tasks, collected, hist_vars >>
    /\ MainUnchanged

(***************************************************************************)
(* main after export_history.                                              *)
(***************************************************************************)
\* `if not commits: return 1`
MainCheckCommits ==
    /\ main_pc = "returned"
    /\ IF all_commits = <<>>
       THEN exit_code' = 1 /\ main_pc' = "finally"
       ELSE main_pc' = "report" /\ UNCHANGED exit_code
    /\ UNCHANGED << repositories, interrupted, files, pool_vars, hist_vars >>
    /\ MainUnchanged

\* The files a report step leaves behind when it stops at `stop`.
ReportFiles(stop) ==
    (IF args.csv /\ stop # "csv" THEN {"csv"} ELSE {})
    \cup (IF stop \in {"html", "none"} THEN {"md"} ELSE {})
    \cup (IF stop = "none" THEN {"html"} ELSE {})

ReportExitCodeAlwaysZero(stop) == 0

\* `return 0` at the end of the try, `return 1` in `except Exception`.
ReportExitCode(stop) == IF stop = "none" THEN 0 ELSE 1

\* save_to_csv when asked for, then generate_logbook (text report, then
\* markup report) and `return 0`; an exception while writing one of the
\* files ends in `except Exception` and `return 1`.
MainReport ==
    /\ main_pc = "report"
    /\ \E stop \in {"none", "md", "html"} \cup (IF args.csv THEN {"csv"} ELSE {}) :
          /\ files' = ReportFiles(stop)
          /\ exit_code' = ReportExitCode(stop)
    /\ main_pc' = "finally"
    /\ UNCHANGED << repositories, interrupted, pool_vars, hist_vars >>
    /\ MainUnchanged

\* KeyboardInterrupt in the main thread, inside the try of main.  Inside
\* the `with ThreadPoolExecutor` block it first runs the executor's exit,
\* which joins the pool threads.  One interrupt is delivered per run: a
\* second one, arriving during that join, is not part of this model.
MainInterrupt ==
    /\ ~interrupted
    /\ main_pc \in {"start", "collect", "returned", "report"}
    /\ interrupted' = TRUE
    /\ IF main_pc = "collect"
       THEN main_pc' = "shutdown" /\ UNCHANGED exit_code
       ELSE main_pc' = "finally" /\ exit_code' = 1
    /\ UNCHANGED << repositories, files, pool_vars, hist_vars >>
    /\ MainUnchanged

\* The executor's exit returns once every submitted task has run; the
\* interrupt then reaches `except KeyboardInterrupt` and `return 1`.
ThreadsJoinedNoWait(ts) == TRUE

\* shutdown(wait=True): every pool thread has ended, which it does once
\* every submitted task has run.
ThreadsJoined(ts) == \A t \in DOMAIN ts : ts[t].pc \in {"done", "raised"}

MainJoin ==
    /\ main_pc = "shutdown"
    /\ ThreadsJoined(tasks)
    /\ main_pc' = "finally"
    /\ exit_code' = 1
    /\ UNCHANGED << repositories, interrupted, files >>
    /\ UNCHANGED << pool_vars, hist_vars >>
    /\ MainUnchanged

Range(seq) == { seq[i] : i \in 1..Len(seq) }

SweepNothing(dirs) == {}

\* The directories cleanup_temp_directories passes to _cleanup_directory.
SweepTargets(dirs) == Range(dirs)

\* main's `finally`: cleanup_temp_directories, then the return.
MainSweep ==
    /\ main_pc = "finally"
    /\ \E failing \in SUBSET (SweepTargets(temp_dirs) \cap fs) :
          fs' = CleanupDirectory(SweepTargets(temp_dirs), failing)
    /\ swept' = swept \cup SweepTargets(temp_dirs)
    /\ temp_dirs' = <<>>
    /\ sweeps' = sweeps + 1
    /\ main_pc' = "exited"
    /\ UNCHANGED << repositories, exit_code, interrupted, files >>
    /\ UNCHANGED << pool_vars, now, acquired, released >>
    /\ UNCHANGED << gl_vars, in_vars >>

Next ==
    \/ MainStart
    \/ \E t \in TaskIds : TaskStart(t)
    \/ \E t \in TaskIds : TaskLocalLog(t)
    \/ \E t \in TaskIds : TaskStamp(t)
    \/ \E t \in TaskIds : TaskExists(t)
    \/ \E t \in TaskIds : TaskMakedirs(t)
    \/ \E t \in TaskIds : TaskClone(t)
    \/ \E t \in TaskIds : TaskFetch(t)
    \/ \E t \in TaskIds : TaskLog(t)
    \/ \E t \in TaskIds : TaskRelease(t)
    \/ Tick
    \/ \E t \in TaskIds : MainCollect(t)
    \/ MainPostProcess
    \/ MainCheckCommits
    \/ MainReport
    \/ MainInterrupt
    \/ MainJoin
    \/ MainSweep

Spec == Init /\ [][Next]_vars

(***************************************************************************)
(* Claims about the extractor.                                             *)
(***************************************************************************)
RECURSIVE CountChar(_, _)
CountChar(s, c) ==
    IF s = <<>> THEN 0
    ELSE (IF Head(s) = c THEN 1 ELSE 0) + CountChar(Tail(s), c)

HasNonSpace(s) == \E i \in 1..Len(s) : ~IsSpace(s[i])

\* A physical line that is not blank and holds at least 3 delimiters, that
\* is, at least 4 delimiter-separated fields.
WellFormedLine(line) == HasNonSpace(line) /\ CountChar(line, "|") >= 3

\* The physical lines of the raw output, cut at every newline.
RECURSIVE PhysicalLines(_, _)
PhysicalLines(text, current) ==
    IF text = <<>> THEN << current >>
    ELSE IF Head(text) = "\n"
         THEN << current >> \o PhysicalLines(Tail(text), <<>>)
         ELSE PhysicalLines(Tail(text), Append(current, Head(text)))

FirstFour(r) ==
    r.hash \o << "|" >> \o r.author_name \o << "|" >> \o r.date
    \o << "|" >> \o r.subject

\* The record holds the fields of the line: the line is its first four
\* fields joined by the delimiter, followed by the body when there is one
\* (surrounding whitespace aside, which strip() removes at both ends of the
\* output).
RecordOfLine(r, line) ==
    \/ Strip(line) = Strip(FirstFour(r)) /\ r.body = <<>>
    \/ Strip(line) = Strip(FirstFour(r) \o << "|" >> \o r.body)

\* C7: for a successful git log, _get_commit_history returns exactly one
\* record per non-blank physical line with 4 or more fields, in line order,
\* and nothing for the other lines.
C7_OneRecordPerWellFormedLine ==
    (gl_pc = "returned" /\ gl_outcome = "ok") =>
        LET kept == SelectSeq(PhysicalLines(gl_stdout, <<>>), WellFormedLine) IN
        /\ Len(gl_commits) = Len(kept)
        /\ \A i \in 1..Len(kept) :
              /\ RecordOfLine(gl_commits[i], kept[i])
              /\ CountChar(gl_commits[i].hash, "|") = 0
              /\ CountChar(gl_commits[i].subject, "|") = 0

\* A run in which a well-formed line was kept and a malformed one dropped.
C7_Witness ==
    /\ gl_pc = "returned"
    /\ gl_outcome = "ok"
    /\ Len(gl_commits) = 1
    /\ \E i \in 1..Len(gl_stdout) : gl_stdout[i] = "\n"
    /\ \E line \in { PhysicalLines(gl_stdout, <<>>)[i] :
                       i \in 1..Len(PhysicalLines(gl_stdout, <<>>)) } :
          HasNonSpace(line) /\ CountChar(line, "|") < 3

(***************************************************************************)
(* Claims about export_history.                                            *)
(***************************************************************************)
Count(seq, r) == Cardinality({ i \in 1..Len(seq) : seq[i] = r })

\* What a successful extraction yields for task t, from git's output alone.
ExpectedRecords(t) ==
    ParseLog(RepoStdout(repositories[t].id), repositories[t].name,
             repositories[t].project)

Succeeded(t) == tasks[t].outcome = "ok"

\* Number of copies of record r in the lists of `lists`, a function from
\* task to list.
CountIn(lists, r) ==
    Cardinality({ p \in UNION { {t} \X (1..Len(lists[t])) : t \in DOMAIN lists } :
                    lists[p[1]][p[2]] = r })

\* The records produced by the tasks that succeeded.
Produced == [t \in TaskIds |-> IF Succeeded(t) THEN ExpectedRecords(t) ELSE <<>>]

AllExpected == UNION { Range(ExpectedRecords(t)) : t \in TaskIds }

AllowListActive ==
    config.has_selected_authors /\ config.selected_authors # <<>>

\* export_history has been left, and not by an interrupt.
ExportLeft ==
    /\ repositories # <<>>
    /\ ~interrupted
    /\ main_pc \in {"returned", "report", "finally", "exited"}

\* C1: export_history returns normally whatever the tasks did (every future
\* was consumed and the sorted list returned); with no allow-list the
\* result holds, exactly once, every record of every task that succeeded,
\* and nothing from a task that failed.
C1_FailureIsolation ==
    /\ ExportLeft => collected = TaskIds
    /\ (main_pc = "returned" /\ ~AllowListActive) =>
          LET produced == Produced IN
          \A r \in AllExpected \cup Range(all_commits) :
              Count(all_commits, r) = CountIn(produced, r)

\* One task raised while acquiring its workspace, another returned commits.
C1_Witness ==
    /\ main_pc = "returned"
    /\ ~AllowListActive
    /\ all_commits # <<>>
    /\ \E t \in TaskIds : tasks[t].pc = "raised"
    /\ \E t \in TaskIds : Succeeded(t) /\ tasks[t].result # <<>>

IsDigit(c) == c \in Range(DigitChar)

\* The first 19 characters have the shape YYYY-MM-DD HH:MM:SS.
MatchesDatePattern(date) ==
    /\ Len(date) >= 19
    /\ \A i \in {1, 2, 3, 4, 6, 7, 9, 10, 12, 13, 15, 16, 18, 19} : IsDigit(date[i])
    /\ date[5] = "-" /\ date[8] = "-" /\ date[11] = " "
    /\ date[14] = ":" /\ date[17] = ":"

DigitValue(c) == CHOOSE n \in 0..9 : DigitChar[n + 1] = c

Number(cs) ==
    IF Len(cs) = 2 THEN 10 * DigitValue(cs[1]) + DigitValue(cs[2])
    ELSE 1000 * DigitValue(cs[1]) + 100 * DigitValue(cs[2])
         + 10 * DigitValue(cs[3]) + DigitValue(cs[4])

\* The timestamp of a matching date: year, month, day, hour, minute, second.
Timestamp(date) ==
    << Number(SubSeq(date, 1, 4)), Number(SubSeq(date, 6, 7)),
       Number(SubSeq(date, 9, 10)), Number(SubSeq(date, 12, 13)),
       Number(SubSeq(date, 15, 16)), Number(SubSeq(date, 18, 19)) >>

RECURSIVE LaterOrEqual(_, _)
LaterOrEqual(a, b) ==
    IF a = <<>> THEN TRUE
    ELSE IF Head(a) = Head(b) THEN LaterOrEqual(Tail(a), Tail(b))
    ELSE Head(a) > Head(b)

\* C2: in the returned list, of two adjacent records with dates of the
\* shape YYYY-MM-DD HH:MM:SS the first is not older than the second.
C2_SortedNewestFirst ==
    main_pc = "returned" =>
        \A i \in 1..(Len(all_commits) - 1) :
            (MatchesDatePattern(all_commits[i].date)
             /\ MatchesDatePattern(all_commits[i + 1].date)) =>
                LaterOrEqual(Timestamp(all_commits[i].date),
                             Timestamp(all_commits[i + 1].date))

\* The result merges two repositories: a record of the second repository
\* precedes a strictly older one of the first, and a record with a date of
\* another shape is in the list too.
C2_Witness ==
    /\ main_pc = "returned"
    /\ \E i \in 1..(Len(all_commits) - 1) :
          /\ MatchesDatePattern(all_commits[i].date)
          /\ MatchesDatePattern(all_commits[i + 1].date)
          /\ Timestamp(all_commits[i].date) # Timestamp(all_commits[i + 1].date)
          /\ all_commits[i].repository = << "L", "B" >>
          /\ all_commits[i + 1].repository = << "L", "A" >>
    /\ \E i \in 1..Len(all_commits) : ~MatchesDatePattern(all_commits[i].date)

\* The results of the tasks, as the futures hold them.
Results == [t \in TaskIds |-> tasks[t].result]

AllCollected == UNION { Range(tasks[t].result) : t \in TaskIds }

\* C3: with a non-empty allow-list the result keeps exactly the collected
\* records whose author_name equals an element of the list; with no list
\* or an empty one it keeps every collected record.
C3_AuthorAllowList ==
    main_pc = "returned" =>
        \A r \in AllCollected \cup Range(all_commits) :
            Count(all_commits, r) =
                IF AllowListActive
                   /\ r.author_name \notin Range(config.selected_authors)
                THEN 0
                ELSE CountIn(Results, r)

\* An allow-list ["Al"] met records of "Al", of "al" and of another author.
C3_Witness ==
    /\ main_pc = "returned"
    /\ AllowListActive
    /\ all_commits # <<>>
    /\ \E r \in AllCollected : r.author_name = << "a", "l" >>
    /\ \E r \in AllCollected : r.author_name = << "B", "o" >>

\* C13: in the list export_history returns, a record whose date does not
\* have the shape YYYY-MM-DD HH:MM:SS stands before every record whose
\* date has it (the dates of the commits all lie in the past).
C13_UnparseableDatesFirst ==
    main_pc = "returned" =>
        \A i, j \in 1..Len(all_commits) :
            (~MatchesDatePattern(all_commits[i].date)
             /\ MatchesDatePattern(all_commits[j].date)) => i < j

IsHex(c) == IsDigit(c) \/ c \in {"a", "b", "c", "d", "e", "f"}

\* C8: every returned record has a non-empty hexadecimal hash and a
\* non-empty subject.
C8_HashAndSubjectPresent ==
    main_pc = "returned" =>
        \A i \in 1..Len(all_commits) :
            /\ all_commits[i].hash # <<>>
            /\ \A k \in 1..Len(all_commits[i].hash) : IsHex(all_commits[i].hash[k])
            /\ all_commits[i].subject # <<>>

\* C9: no failure of git fetch (exit code or exception) ends a task: once
\* the clone succeeded, the step after git fetch is the history extraction.
C9_FetchFailureNotFatal ==
    [][\A t \in TaskIds :
          (tasks[t].pc = "fetch" /\ tasks'[t].pc # "fetch") =>
              tasks'[t].pc = "log"]_vars

AllLocal ==
    \A t \in 1..Len(repositories) :
        Catalogue[repositories[t].id].url_kind = "local"

\* The hashes the inputs determine: those of the allowed records in the
\* output of git log of every local git repository listed.
ExpectedHashes ==
    { r.hash : r \in { x \in AllExpected :
                         /\ \E t \in TaskIds :
                               /\ Catalogue[repositories[t].id].is_git
                               /\ x \in Range(ExpectedRecords(t))
                         /\ AllowListActive =>
                               x.author_name \in Range(config.selected_authors) } }

\* C10: for local repositories the set of returned hashes is a function of
\* the inputs: it does not depend on the order in which the tasks ran and
\* completed, nor on the number of workers.
C10_DeterministicHashes ==
    (main_pc = "returned" /\ AllLocal) =>
        { all_commits[i].hash : i \in 1..Len(all_commits) } = ExpectedHashes

\* Two local repositories with commits, read by two workers.
C10_Witness ==
    /\ main_pc = "returned"
    /\ AllLocal
    /\ args.workers = 2
    /\ Len(repositories) = 2
    /\ repositories[1].id # repositories[2].id
    /\ \A t \in TaskIds : tasks[t].result # <<>>

\* The task has returned or raised.
Completed(t) == tasks[t].pc \in {"done", "raised"}

\* export_history has computed its result.
ResultComputed == main_pc \in {"returned", "report", "finally", "exited"}

\* C11: the step that filters and sorts is taken only when every submitted
\* task has returned or raised and the list holds every record of every
\* task's result; from then on neither the result nor what any task
\* produced changes, and no task is running.
C11_BarrierBeforePostProcessing ==
    [][/\ (main_pc = "collect" /\ main_pc' = "returned") =>
              /\ \A t \in TaskIds : Completed(t)
              /\ LET results == Results IN
                 \A r \in AllCollected \cup Range(all_commits) :
                     Count(all_commits, r) = CountIn(results, r)
       /\ (ResultComputed /\ ~interrupted) =>
              /\ all_commits' = all_commits
              /\ Results' = Results
              /\ \A t \in TaskIds : Completed(t)]_vars

\* The result was computed after one task had raised and another had
\* cloned a repository, read its history and released its workspace.
C11_Witness ==
    /\ main_pc = "returned"
    /\ Len(tasks) = 2
    /\ \E t \in TaskIds : tasks[t].pc = "raised"
    /\ \E t \in released : tasks[t].pc = "done" /\ tasks[t].result # <<>>

(***************************************************************************)
(* Claims about the workspaces and about main.                             *)
(***************************************************************************)
\* Task t holds a workspace: it is between the creation of its directory
\* and the end of the scoped release.
Holds(t) == tasks[t].dir # NoDir

\* C12: no two tasks hold the same directory at the same time, and every
\* acquisition yields a directory that did not exist just before, exists
\* just after and is held by no other task.
C12_WorkspaceUniqueness ==
    [][/\ \A t, u \in DOMAIN tasks' :
              (t # u /\ tasks'[t].dir # NoDir) => tasks'[t].dir # tasks'[u].dir
       /\ \A t \in TaskIds :
              (~Holds(t) /\ tasks'[t].dir # NoDir) =>
                  /\ tasks'[t].dir \notin fs
                  /\ tasks'[t].dir \in fs'
                  /\ \A u \in TaskIds : tasks[u].dir # tasks'[t].dir]_vars

\* Two tasks that named their workspaces in the same millisecond hold two
\* different directories.
C12_Witness ==
    /\ Len(tasks) = 2
    /\ Holds(1) /\ Holds(2)
    /\ tasks[1].ts = tasks[2].ts
    /\ tasks[1].dir # tasks[2].dir
    /\ {tasks[1].dir, tasks[2].dir} \subseteq fs

\* Task t is in the clone, fetch or git log step inside its workspace.
InUse(t) == tasks[t].pc \in {"clone", "fetch", "log"}

C4_ScopedRelease ==
    [][\A t \in TaskIds :
          (tasks[t].dir # NoDir /\ ~Finished(t)
           /\ tasks'[t].pc \in {"done", "raised"}) =>
              /\ t \in released'
              /\ ~tasks'[t].rm_failed => tasks[t].dir \notin fs']_vars

\* A task that failed inside its workspace scope (clone exit code or
\* timeout, exception, git log failure) has ended and its directory is gone.
C4_Witness ==
    /\ \E t \in released :
          /\ tasks[t].pc = "done"
          /\ tasks[t].outcome = "failed"
          /\ ~tasks[t].rm_failed
    /\ Cardinality(acquired) = 1
    /\ fs = {}
    /\ sweeps = 0

\* C5: main returns only after cleanup_temp_directories has run; when it
\* starts, every directory acquired during the run is in temp_dirs; it
\* runs _cleanup_directory on each of them and leaves temp_dirs empty.
C5_FinalSweep ==
    /\ main_pc = "finally" => acquired = Range(temp_dirs)
    /\ main_pc = "exited" =>
          /\ sweeps = 1
          /\ acquired \subseteq swept
          /\ temp_dirs = <<>>

\* An interrupted run that had acquired a directory has ended.
C5_Witness ==
    /\ main_pc = "exited"
    /\ interrupted
    /\ acquired # {}
    /\ swept # {}

NoRepositoriesSpecified ==
    (~args.config \/ config.repositories = <<>>) /\ args.repos = <<>>

\* C6: main returns 0 only with at least one commit and the report files
\* written; it returns 1 with no repository, with zero commits, after an
\* error and after an interrupt; with no repository or zero commits no
\* file is written.
C6_ExitCode ==
    main_pc = "exited" =>
        /\ exit_code \in {0, 1}
        /\ exit_code = 0 =>
              /\ all_commits # <<>>
              /\ {"md", "html"} \subseteq files
              /\ args.csv => "csv" \in files
        /\ NoRepositoriesSpecified => (exit_code = 1 /\ files = {})
        /\ (ExportLeft /\ all_commits = <<>>) => (exit_code = 1 /\ files = {})
        /\ interrupted => exit_code = 1
        /\ (ExportLeft /\ ~({"md", "html"} \subseteq files)) => exit_code = 1
        /\ (ExportLeft /\ args.csv /\ "csv" \notin files) => exit_code = 1

\* Every repository task failed: exit code 1 and no file.
C6_Witness ==
    /\ main_pc = "exited"
    /\ ~interrupted
    /\ Len(repositories) = 2
    /\ \A t \in TaskIds : tasks[t].outcome = "failed"
    /\ exit_code = 1
    /\ files = {}

====
